---- MODULE Spec2Model ----
(***************************************************************************)
(* Model of tools/lint/actions_local_runner.py: the asynchronous lint      *)
(* runner.  Text is modelled as a sequence of one-character strings, so    *)
(* that stripping, concatenation, extension splitting and prefix/glob      *)
(* matching are computed the way the Python code computes them.            *)
(***************************************************************************)
EXTENDS Integers, Sequences, FiniteSets, TLC

VARIABLES
    files,      \* argument of Check.run: None or a list of paths
    excludes,   \* the exclude entries read from the .flake8 configuration
    missing,    \* the executables that cannot be resolved on this machine
    hung,       \* the external command that never exits, if there is one
    environ,    \* os.environ, the environment of the runner's own process
    flags,      \* constructor arguments: generate_stubs, generate_build
    pc,         \* position of every check's run coroutine
    proc,       \* state of every external process
    seen,       \* the environment of every external process, while it lives
    rc,         \* exit status of every external process that has exited
    result,     \* the local variable `result` of every check
    ret,        \* value returned by every check's run
    calls,      \* per check: how often filter / quick / full / routing ran
    printed,    \* lines written to standard output, in order
    overall,    \* outcome computed by the orchestrator
    args,       \* inputs of the pure function under study
    outs        \* its outputs

vars == <<files, excludes, missing, hung, environ, flags, pc, proc, seen, rc, result, ret, calls,
          printed, overall, args, outs>>

(* ----------------------------- bounds --------------------------------- *)
MaxStr == 2       \* longest stream text of an operand of __add__
MaxFiles == 2     \* longest changed-file list
MaxChecks == 2    \* most checks run concurrently
NumProfiles == 2  \* mypy*.ini files found in the repository
MaxFailures == 2  \* most commands that exit non-zero in one run
MaxLines == 2     \* most lines of the script of a workflow step
MaxSteps == 2     \* most steps of a workflow job, and most requested names

(* ------------------------------ text ---------------------------------- *)
NL == "\n"

Whitespace == {" ", NL, "\t"}

RECURSIVE LStrip(_)
LStrip(s) ==
    IF s = <<>> THEN <<>>
    ELSE IF Head(s) \in Whitespace THEN LStrip(Tail(s)) ELSE s

RECURSIVE RStrip(_)
RStrip(s) ==
    IF s = <<>> THEN <<>>
    ELSE IF s[Len(s)] \in Whitespace THEN RStrip(SubSeq(s, 1, Len(s) - 1))
    ELSE s

Strip(s) == RStrip(LStrip(s))

StartsWith(s, p) == Len(p) <= Len(s) /\ SubSeq(s, 1, Len(p)) = p

(* index of the last occurrence of ch in s, 0 when absent (str.rfind + 1) *)
RFind(s, ch) ==
    LET hits == {i \in 1..Len(s) : s[i] = ch}
    IN  IF hits = {} THEN 0 ELSE CHOOSE i \in hits : \A j \in hits : j <= i

(* --------------------------- CommandResult ---------------------------- *)
CommandResult(passed, stdout, stderr) ==
    [passed |-> passed, stdout |-> stdout, stderr |-> stderr]

combine_streams(a, b) ==
    IF Strip(a) = <<>> /\ Strip(b) = <<>> THEN <<>>
    ELSE IF Strip(a) = <<>> THEN b
    ELSE IF Strip(b) = <<>> THEN a
    ELSE a \o <<NL>> \o b

AddOrPassed(self, other) ==
    CommandResult(self.passed \/ other.passed,
                  self.stdout \o <<NL>> \o other.stdout,
                  self.stderr \o <<NL>> \o other.stderr)

Add(self, other) ==
    CommandResult(self.passed /\ other.passed,
                  self.stdout \o <<NL>> \o other.stdout,
                  self.stderr \o <<NL>> \o other.stderr)

(* ----------------------------- file filters --------------------------- *)
(* os.path.splitext(filename)[1]: the text from the last dot of the last  *)
(* path component, unless that component has only leading dots before it  *)
SplitExt(p) ==
    LET sepIndex == RFind(p, "/")
        dotIndex == RFind(p, ".")
    IN  IF dotIndex > sepIndex
           /\ \E k \in (sepIndex + 1)..(dotIndex - 1) : p[k] # "."
        THEN SubSeq(p, dotIndex, Len(p))
        ELSE <<>>

Reverse(s) == [i \in 1..Len(s) |-> s[Len(s) + 1 - i]]

filter_ext_Reversed(fs, extensions) ==
    Reverse(SelectSeq(fs, LAMBDA f : SplitExt(f) \in extensions))

filter_ext(fs, extensions) == SelectSeq(fs, LAMBDA f : SplitExt(f) \in extensions)

(* fnmatch.fnmatch on POSIX, for patterns made of literals, "*" and "?"   *)
RECURSIVE FnMatch(_, _)
FnMatch(name, pat) ==
    IF pat = <<>> THEN name = <<>>
    ELSE IF Head(pat) = "*"
         THEN \/ FnMatch(name, Tail(pat))
              \/ name # <<>> /\ FnMatch(Tail(name), pat)
    ELSE IF name = <<>> THEN FALSE
    ELSE IF Head(pat) = "?" THEN FnMatch(Tail(name), Tail(pat))
    ELSE Head(name) = Head(pat) /\ FnMatch(Tail(name), Tail(pat))

(* excludes = [e.strip() for e in excludes if e.strip() != ""]            *)
RECURSIVE MapStrip(_)
MapStrip(es) ==
    IF es = <<>> THEN <<>> ELSE <<Strip(Head(es))>> \o MapStrip(Tail(es))

CleanExcludes(es) == SelectSeq(MapStrip(es), LAMBDA e : e # <<>>)

should_include_Substring(name, es) ==
    \A i \in 1..Len(es) :
        /\ ~FnMatch(name, es[i])
        /\ \A k \in 1..(Len(name) - Len(es[i]) + 1) :
              SubSeq(name, k, k + Len(es[i]) - 1) # es[i]

should_include(name, es) ==
    \A i \in 1..Len(es) :
        /\ ~FnMatch(name, es[i])
        /\ ~StartsWith(name, es[i])
        /\ ~StartsWith(<<".", "/">> \o name, es[i])

Ext_py  == <<".", "p", "y">>
Ext_pyi == <<".", "p", "y", "i">>
Ext_sh  == <<".", "s", "h">>
Ext_c   == <<".", "c">>
Ext_cc  == <<".", "c", "c">>
Ext_cpp == <<".", "c", "p", "p">>

Flake8Filter(fs, es) ==
    SelectSeq(filter_ext(fs, {Ext_py}),
              LAMBDA f : should_include(f, CleanExcludes(es)))

MypyFilterPyOnly(fs) == filter_ext(fs, {Ext_py})

MypyFilter(fs) == filter_ext(fs, {Ext_py, Ext_pyi})

ShellCheckFilter(fs) == filter_ext(fs, {Ext_sh})

ClangTidyFilter(fs) == filter_ext(fs, {Ext_c, Ext_cc, Ext_cpp})

YamlStepFilter(fs) == fs

(* Check.filter_files as dispatched on the class of the check             *)
filter_files(c, fs, es) ==
    CASE c = "flake8"     -> Flake8Filter(fs, es)
      [] c = "mypy"       -> MypyFilter(fs)
      [] c = "shellcheck" -> ShellCheckFilter(fs)
      [] c = "clang-tidy" -> ClangTidyFilter(fs)
      [] OTHER            -> YamlStepFilter(fs)

(* ------------------------- checks and commands ------------------------ *)
Checks == {"flake8", "mypy", "shellcheck", "clang-tidy", "yaml"}

(* REPO_ROOT.glob("mypy*.ini"): the configuration profiles found          *)
ProfileNames == <<"mypy.ini", "mypy-strict.ini", "mypy-extra.ini", "mypy-more.ini">>

Profiles == {ProfileNames[i] : i \in 1..NumProfiles}

(* the three coroutines of Mypy.autogen, in the order of the list         *)
AutogenCmds == <<"torch_version", "mypy_codegen", "gen_pyi">>

AutogenSet == {AutogenCmds[i] : i \in 1..Len(AutogenCmds)}

(* the commands of ClangTidy.pre_run, in the order they are awaited       *)
PreRunSwapped == <<"git_submodule", "setup_cmake", "generate_code", "codegen_gen">>

PreRunCmds == <<"git_submodule", "setup_cmake", "codegen_gen", "generate_code">>

PreRunSet == {PreRunCmds[i] : i \in 1..Len(PreRunCmds)}

Cmds == {"flake8", "mypy_wrapper", "run_shellcheck", "shellcheck_job",
         "clang_tidy", "step_script"} \cup AutogenSet \cup PreRunSet \cup Profiles

(* the exit status of bash when the command it is given is not found      *)
NotFound == 127

ExitCodes == {0, 1, NotFound}

(* the executables the command lines name that are looked up on PATH; the *)
(* others are sys.executable or a script of the repository                *)
Executables == {"flake8", "git", "mypy", "time"}

(* the executable a command line starts with                              *)
Exe(cmd) ==
    CASE cmd = "flake8"        -> "flake8"
      [] cmd = "git_submodule" -> "git"
      [] cmd \in Profiles      -> "mypy"
      [] OTHER                 -> "python"

(* shutil.which(name)                                                     *)
which(name) == name \notin missing

NoHang == "none"

NotExited == -1

(* what a process wrote before it exited: a line on stdout, and a line on *)
(* stderr when it failed                                                  *)
RawStdout(cmd, code) == <<cmd, NL>>

RawStderr(cmd, code) == IF code = 0 THEN <<>> ELSE <<"!", cmd, NL>>

(* how shell_cmd ends once the process has exited: it returns `value`, or *)
(* raises RuntimeError with the streams of `value` in its message         *)
shell_cmd_check(cmd, code, redirect, check) ==
    LET passed == code = 0
        stdout == Strip(RawStdout(cmd, code))
        stderr == Strip(RawStderr(cmd, code))
    IN  IF ~redirect
        THEN [raised |-> FALSE, value |-> CommandResult(passed, <<>>, <<>>)]
        ELSE IF check /\ ~passed
        THEN [raised |-> TRUE, value |-> CommandResult(passed, stdout, stderr)]
        ELSE [raised |-> FALSE, value |-> CommandResult(passed, stdout, stderr)]

(* the value shell_cmd returns when called with the default check=False   *)
shell_cmd(cmd, code, redirect) == shell_cmd_check(cmd, code, redirect, FALSE).value

Unset == CommandResult(FALSE, <<"unset">>, <<"unset">>)

Empty == CommandResult(TRUE, <<>>, <<>>)

(* ------------------------------- routing ----------------------------- *)
QuickModeTruthy == ~files.isNone /\ files.list # <<>>

(* `if files is not None`                                                 *)
QuickMode == ~files.isNone

NothingToDoNever(relevant_files) == FALSE

(* `if len(relevant_files) == 0`                                          *)
NothingToDo(relevant_files) == Len(relevant_files) = 0

(* ------------------------------ reporting ----------------------------- *)
Line(c, text) == [by |-> c, text |-> text]

RECURSIVE PrintStreams(_, _)
PrintStreams(c, streams) ==
    IF streams = <<>> THEN <<>>
    ELSE (IF Strip(Head(streams)) # <<>>
          THEN <<Line(c, Strip(Head(streams)))>> ELSE <<>>)
         \o PrintStreams(c, Tail(streams))

print_results(c, passed, streams) ==
    <<Line(c, <<IF passed THEN "ok" ELSE "x", " ", c>>)>>
    \o PrintStreams(c, streams)

RunOutputStdoutFirst(c, r) ==
    print_results(c, r.passed,
                  IF r.passed THEN <<>> ELSE <<r.stdout, r.stderr>>)
    \o (IF c = "mypy" /\ ~r.passed
        THEN <<Line(c, <<"Mypy failed">>)>> ELSE <<>>)

(* the tail of Check.run once run_helper has returned r, with the extra   *)
(* line of Mypy.run                                                       *)
RunOutput(c, r) ==
    print_results(c, r.passed,
                  IF r.passed THEN <<>> ELSE <<r.stderr, r.stdout>>)
    \o (IF c = "mypy" /\ ~r.passed
        THEN <<Line(c, <<"Mypy failed">>)>> ELSE <<>>)

ReportHeaderFirst(c, r) ==
    /\ result' = [result EXCEPT ![c] = r]
    /\ ret' = [ret EXCEPT ![c] = r.passed]
    /\ printed' = <<Head(RunOutput(c, r))>> \o printed \o Tail(RunOutput(c, r))
    /\ pc' = [pc EXCEPT ![c] = "done"]

(* Check.run from the return of run_helper to its own return: no await in *)
(* between, so the lines are written in one step                          *)
Report(c, r) ==
    /\ result' = [result EXCEPT ![c] = r]
    /\ ret' = [ret EXCEPT ![c] = r.passed]
    /\ printed' = printed \o RunOutput(c, r)
    /\ pc' = [pc EXCEPT ![c] = "done"]

(* ------------------------------ environment -------------------------- *)
(* the variables of the environment that the runner writes                *)
EnvNames == {"USE_NCCL", "USE_DEPLOY", "CC", "CXX", "GITHUB_WORKSPACE"}

NotSet == ""

(* os.environ when the runner starts: a compiler is already chosen        *)
BaseEnviron == [n \in EnvNames |-> IF n = "CC" THEN "gcc" ELSE NotSet]

(* the entry of `seen` of a process that has not been created             *)
NoEnv == [n \in EnvNames |-> "?"]

gen_compile_commands_Scoped(env) == env

(* the four assignments to os.environ of gen_compile_commands             *)
gen_compile_commands(env) ==
    [env EXCEPT !["USE_NCCL"] = "0", !["USE_DEPLOY"] = "1",
                !["CC"] = "clang", !["CXX"] = "clang++"]

(* YamlStep.full: a copy of os.environ with one more entry                *)
YamlStepEnv(env) == [env EXCEPT !["GITHUB_WORKSPACE"] = "/tmp"]

(* Mypy.env: a copy of os.environ (MYPY_FORCE_COLOR is not among EnvNames) *)
MypyEnv(env) == env

(* the env argument of shell_cmd for cmd, or os.environ itself when the   *)
(* argument is None and the process inherits it; env is os.environ now    *)
ProcessEnv(cmd, env) ==
    CASE cmd = "step_script"  -> YamlStepEnv(env)
      [] cmd = "mypy_wrapper" -> MypyEnv(env)
      [] OTHER                -> env

(* create_subprocess_shell for a command whose environment is settled     *)
Start(p, cmd) == proc' = [p EXCEPT ![cmd] = "running"]

(* the environments that remain when the process table is p: that of a   *)
(* process goes away with the process                                     *)
Live(p) == [m \in Cmds |-> IF p[m] = "exited" THEN NoEnv ELSE seen[m]]

(* create_subprocess_shell(cmd_str, env=env) while os.environ is env      *)
Spawn(p, cmd, env) ==
    /\ Start(p, cmd)
    /\ seen' = [Live(p) EXCEPT ![cmd] = ProcessEnv(cmd, env)]

(* coros = [shell_cmd([exe, ...], env=self.env()) for config in ...]: the *)
(* copies are taken when the list is built                                *)
ProfileEnvs ==
    seen' = [m \in Cmds |-> IF m \in Profiles THEN MypyEnv(environ) ELSE seen[m]]

(* the process table once cmd has exited                                  *)
Exited(cmd) == [proc EXCEPT ![cmd] = "exited"]

(* the commands that have exited non-zero so far                          *)
FailedCmds == {m \in DOMAIN rc : rc[m] \notin {0, NotExited}}

CommunicatedBlocking(cmd) == hung = NoHang

(* `await proc.communicate()` returns when the process exits              *)
Communicated(cmd) == cmd # hung

Exit(cmd, code) ==
    /\ proc[cmd] = "running"
    /\ Communicated(cmd)
    /\ IF which(Exe(cmd))
       THEN code # NotFound /\ (code # 0 => Cardinality(FailedCmds) < MaxFailures)
       ELSE code = NotFound
    /\ rc' = [rc EXCEPT ![cmd] = code]

At(c, label) == pc' = [pc EXCEPT ![c] = label]

(* ----------------------- quick and full operations -------------------- *)
(* the part of quick(files) that runs before its first suspension; p is   *)
(* the process table at that point                                        *)
QuickStart(c, p) ==
    CASE c = "flake8"     -> Spawn(p, "flake8", environ) /\ At(c, "main")
      [] c = "mypy"       ->
            IF flags.generate_stubs
            THEN /\ At(c, IF which("time") THEN "autogen" ELSE "raised")
                 /\ proc' = p
                 /\ seen' = Live(p)
            ELSE Spawn(p, "mypy_wrapper", environ) /\ At(c, "main")
      [] c = "shellcheck" -> Spawn(p, "run_shellcheck", environ) /\ At(c, "main")
      [] c = "clang-tidy" -> Spawn(p, "clang_tidy", environ) /\ At(c, "main")
      [] OTHER            -> Spawn(p, "step_script", environ) /\ At(c, "main")

(* the part of full() that runs before its first suspension               *)
FullStart(c, p) ==
    CASE c = "flake8"     -> Spawn(p, "flake8", environ) /\ At(c, "main")
      [] c = "mypy"       ->
            /\ At(c, IF flags.generate_stubs
                     THEN IF which("time") THEN "autogen" ELSE "raised"
                     ELSE IF which("mypy") THEN "profiles" ELSE "raised")
            /\ proc' = p
            /\ IF ~flags.generate_stubs /\ which("mypy")
               THEN ProfileEnvs ELSE UNCHANGED seen
      [] c = "shellcheck" -> Spawn(p, "shellcheck_job", environ) /\ At(c, "main")
      [] c = "clang-tidy" -> Spawn(p, "clang_tidy", environ) /\ At(c, "main")
      [] OTHER            -> Spawn(p, "step_script", environ) /\ At(c, "main")

(* YamlStep.quick is `return await self.full()`                           *)
QuickCallsFull(c) == c = "yaml"

(* Check.run_helper up to its first suspension                            *)
run_helper(c, p) ==
    IF QuickMode
    THEN LET relevant_files == filter_files(c, files.list, excludes)
         IN  IF NothingToDo(relevant_files)
             THEN /\ calls' = [calls EXCEPT ![c].filter = @ + 1]
                  /\ Report(c, CommandResult(TRUE, <<>>, <<>>))
                  /\ proc' = p
                  /\ seen' = Live(p)
             ELSE /\ calls' = [calls EXCEPT
                                 ![c].filter = @ + 1,
                                 ![c].quick = @ + 1,
                                 ![c].quickArgs = relevant_files,
                                 ![c].full = IF QuickCallsFull(c) THEN @ + 1 ELSE @]
                  /\ QuickStart(c, p)
                  /\ UNCHANGED <<result, ret, printed>>
    ELSE /\ calls' = [calls EXCEPT ![c].full = @ + 1, ![c].route = @ + 1]
         /\ FullStart(c, p)
         /\ UNCHANGED <<result, ret, printed>>

(* ------------------------------- Flake8 ------------------------------- *)
Flake8Run ==
    /\ pc["flake8"] = "idle"
    /\ run_helper("flake8", proc)
    /\ UNCHANGED <<files, excludes, missing, hung, environ, flags, rc, overall, args, outs>>

Flake8Exit ==
    /\ pc["flake8"] = "main"
    /\ \E code \in ExitCodes :
        /\ Exit("flake8", code)
        /\ Report("flake8", shell_cmd("flake8", code, TRUE))
    /\ proc' = Exited("flake8")
    /\ seen' = Live(proc')
    /\ UNCHANGED <<files, excludes, missing, hung, environ, flags, calls, overall, args, outs>>

(* ----------------------------- ShellCheck ----------------------------- *)
ShellCheckCmd == IF QuickMode THEN "run_shellcheck" ELSE "shellcheck_job"

ShellCheckRun ==
    /\ pc["shellcheck"] = "idle"
    /\ run_helper("shellcheck", proc)
    /\ UNCHANGED <<files, excludes, missing, hung, environ, flags, rc, overall, args, outs>>

ShellCheckExit ==
    /\ pc["shellcheck"] = "main"
    /\ \E code \in ExitCodes :
        /\ Exit(ShellCheckCmd, code)
        /\ Report("shellcheck", shell_cmd(ShellCheckCmd, code, QuickMode))
    /\ proc' = Exited(ShellCheckCmd)
    /\ seen' = Live(proc')
    /\ UNCHANGED <<files, excludes, missing, hung, environ, flags, calls, overall, args, outs>>

(* ------------------------------ YamlStep ------------------------------ *)
YamlStepRun ==
    /\ pc["yaml"] = "idle"
    /\ run_helper("yaml", proc)
    /\ UNCHANGED <<files, excludes, missing, hung, environ, flags, rc, overall, args, outs>>

YamlStepExit ==
    /\ pc["yaml"] = "main"
    /\ \E code \in ExitCodes :
        /\ Exit("step_script", code)
        /\ Report("yaml", shell_cmd("step_script", code, TRUE))
    /\ proc' = Exited("step_script")
    /\ seen' = Live(proc')
    /\ UNCHANGED <<files, excludes, missing, hung, environ, flags, calls, overall, args, outs>>

(* ------------------------------ ClangTidy ----------------------------- *)
(* Check.run awaits pre_run, then run_helper; pre_run awaits its three    *)
(* steps one after the other and drops what each returns                  *)
ClangTidyRun ==
    /\ pc["clang-tidy"] = "idle"
    /\ IF flags.generate_build
       THEN /\ Spawn(proc, PreRunCmds[1], environ)
            /\ At("clang-tidy", PreRunCmds[1])
            /\ UNCHANGED <<calls, result, ret, printed>>
       ELSE run_helper("clang-tidy", proc)
    /\ UNCHANGED <<files, excludes, missing, hung, environ, flags, rc, overall, args, outs>>

(* update_submodules, gen_compile_commands or the first command of        *)
(* run_autogen returns: the next command is started                       *)
ClangTidyPreRunExit(i) ==
    /\ pc["clang-tidy"] = PreRunCmds[i]
    /\ \E code \in ExitCodes : Exit(PreRunCmds[i], code)
    /\ environ' = IF PreRunCmds[i + 1] = "setup_cmake"
                  THEN gen_compile_commands(environ) ELSE environ
    /\ Spawn(Exited(PreRunCmds[i]), PreRunCmds[i + 1], environ')
    /\ At("clang-tidy", PreRunCmds[i + 1])
    /\ UNCHANGED <<files, excludes, missing, hung, flags, calls, result, ret, printed,
                   overall, args, outs>>

(* the second command of run_autogen returns: pre_run is over and         *)
(* run_helper is entered                                                  *)
ClangTidyPreRunDone ==
    /\ pc["clang-tidy"] = PreRunCmds[Len(PreRunCmds)]
    /\ \E code \in ExitCodes : Exit(PreRunCmds[Len(PreRunCmds)], code)
    /\ run_helper("clang-tidy", Exited(PreRunCmds[Len(PreRunCmds)]))
    /\ UNCHANGED <<files, excludes, missing, hung, environ, flags, overall, args, outs>>

ClangTidyExit ==
    /\ pc["clang-tidy"] = "main"
    /\ \E code \in ExitCodes :
        /\ Exit("clang_tidy", code)
        /\ Report("clang-tidy", shell_cmd("clang_tidy", code, QuickMode))
    /\ proc' = Exited("clang_tidy")
    /\ seen' = Live(proc')
    /\ UNCHANGED <<files, excludes, missing, hung, environ, flags, calls, overall, args, outs>>

(* -------------------------------- Mypy -------------------------------- *)
RECURSIVE SumResults(_, _)
SumResults(acc, cmds) ==
    IF cmds = <<>> THEN acc
    ELSE SumResults(Add(acc, shell_cmd(Head(cmds), rc[Head(cmds)], TRUE)),
                    Tail(cmds))

GatheredFirst(cmds) == \E i \in 1..Len(cmds) : proc[cmds[i]] = "exited"

(* utils.gather(coros): every coroutine of the list becomes a task; the   *)
(* caller resumes once each of them has returned                          *)
Gathered(cmds) == \A i \in 1..Len(cmds) : proc[cmds[i]] = "exited"

ProfileCmdsFirst == <<ProfileNames[1]>>

(* one mypy run per configuration file, in the order of the glob          *)
ProfileCmds == [i \in 1..NumProfiles |-> ProfileNames[i]]

MypyRun ==
    /\ pc["mypy"] = "idle"
    /\ run_helper("mypy", proc)
    /\ UNCHANGED <<files, excludes, missing, hung, environ, flags, rc, overall, args, outs>>

MypyAutogenStart(m) ==
    /\ pc["mypy"] = "autogen"
    /\ proc[m] = "none"
    /\ Spawn(proc, m, environ)
    /\ UNCHANGED <<files, excludes, missing, hung, environ, flags, pc, rc, result, ret, calls,
                   printed, overall, args, outs>>

MypyAutogenExit(m) ==
    /\ pc["mypy"] = "autogen"
    /\ \E code \in ExitCodes : Exit(m, code)
    /\ proc' = Exited(m)
    /\ seen' = Live(proc')
    /\ UNCHANGED <<files, excludes, missing, hung, environ, flags, pc, result, ret, calls,
                   printed, overall, args, outs>>

(* autogen returns: quick drops the result and starts the wrapper, full   *)
(* keeps it as `result` and gathers one mypy run per profile              *)
MypyAutogenDone ==
    /\ pc["mypy"] = "autogen"
    /\ Gathered(AutogenCmds)
    /\ IF ~QuickMode
       THEN /\ result' = [result EXCEPT !["mypy"] = SumResults(Empty, AutogenCmds)]
            /\ At("mypy", IF which("mypy") THEN "profiles" ELSE "raised")
            /\ IF which("mypy") THEN ProfileEnvs ELSE UNCHANGED seen
            /\ UNCHANGED proc
       ELSE /\ Spawn(proc, "mypy_wrapper", environ)
            /\ At("mypy", "main")
            /\ UNCHANGED result
    /\ UNCHANGED <<files, excludes, missing, hung, environ, flags, rc, ret, calls, printed,
                   overall, args, outs>>

MypyWrapperExit ==
    /\ pc["mypy"] = "main"
    /\ \E code \in ExitCodes :
        /\ Exit("mypy_wrapper", code)
        /\ Report("mypy", shell_cmd("mypy_wrapper", code, TRUE))
    /\ proc' = Exited("mypy_wrapper")
    /\ seen' = Live(proc')
    /\ UNCHANGED <<files, excludes, missing, hung, environ, flags, calls, overall, args, outs>>

MypyProfileStart(m) ==
    /\ pc["mypy"] = "profiles"
    /\ proc[m] = "none"
    /\ Start(proc, m)
    /\ UNCHANGED <<files, excludes, missing, hung, environ, flags, pc, seen, rc, result, ret,
                   calls, printed, overall, args, outs>>

MypyProfileExit(m) ==
    /\ pc["mypy"] = "profiles"
    /\ \E code \in ExitCodes : Exit(m, code)
    /\ proc' = Exited(m)
    /\ seen' = Live(proc')
    /\ UNCHANGED <<files, excludes, missing, hung, environ, flags, pc, result, ret, calls,
                   printed, overall, args, outs>>

MypyFullDone ==
    /\ pc["mypy"] = "profiles"
    /\ Gathered(ProfileCmds)
    /\ \E r \in {SumResults(IF flags.generate_stubs THEN result["mypy"] ELSE Empty,
                            ProfileCmds)} :
          Report("mypy", r)
    /\ UNCHANGED <<files, excludes, missing, hung, environ, flags, proc, seen, rc, calls, overall, args, outs>>

(* ---------------------------- orchestrator ---------------------------- *)
InRun(c) == pc[c] # "absent"

AllPassedFirst ==
    \A c \in Checks : (InRun(c) /\ printed # <<>> /\ printed[1].by = c) => ret[c]

AllPassed == \A c \in Checks : InRun(c) => ret[c]

OrchestratorJoinEarly ==
    /\ overall = "running"
    /\ \/ \A c \in Checks : InRun(c) => pc[c] = "done"
       \/ \E c \in Checks : pc[c] = "done" /\ ~ret[c]
    /\ overall' = IF AllPassed THEN "passed" ELSE "failed"
    /\ UNCHANGED <<files, excludes, missing, hung, environ, flags, pc, proc, seen, rc, result, ret, calls,
                   printed, args, outs>>

(* every check's run has returned: the overall outcome is their AND       *)
OrchestratorJoin ==
    /\ overall = "running"
    /\ \A c \in Checks : InRun(c) => pc[c] = "done"
    /\ overall' = IF AllPassed THEN "passed" ELSE "failed"
    /\ UNCHANGED <<files, excludes, missing, hung, environ, flags, pc, proc, seen, rc, result, ret, calls,
                   printed, args, outs>>

(* ------------------------------- inputs ------------------------------- *)
F_README == <<"R", "E", "A", "D", "M", "E">>
F_a_py   == <<"a", ".", "p", "y">>
F_b_sh   == <<"b", ".", "s", "h">>
F_build  == <<"b", "u", "i", "l", "d", "/", "g", "e", "n", "e", "r", "a",
              "t", "e", "d", ".", "p", "y">>
F_c_cpp  == <<"c", ".", "c", "p", "p">>
F_d_pyi  == <<"d", ".", "p", "y", "i">>

(* the paths a changed-file list is drawn from, in sorted order           *)
RunFiles == <<F_a_py, F_b_sh, F_c_cpp>>

RECURSIVE Ascending(_)
Ascending(S) ==
    IF S = {} THEN <<>>
    ELSE LET m == CHOOSE i \in S : \A j \in S : i <= j
         IN  <<RunFiles[m]>> \o Ascending(S \ {m})

(* changed_files() returns sorted(find_changed_files()), a sorted list    *)
(* without duplicates                                                     *)
FileLists ==
    {Ascending(S) : S \in {T \in SUBSET (1..Len(RunFiles)) : Cardinality(T) <= MaxFiles}}

NoFiles == [isNone |-> TRUE, list |-> <<>>]

FileInputs == {NoFiles} \cup {[isNone |-> FALSE, list |-> l] : l \in FileLists}

(* the entries of the exclude option of .flake8, split at the commas      *)
NoExcludes == <<<<>>>>

ExcludeConfigs ==
    {NoExcludes,
     <<<<"b", "u", "i", "l", "d", "/">>>>,
     <<<<".", "/", "b", "u", "i", "l", "d">>, <<" ", "*", ".", "p", "y", "i">>>>}

NoArgs == [fn |-> "none"]

NoOuts == [done |-> FALSE]

NoCalls == [filter |-> 0, quick |-> 0, full |-> 0, route |-> 0, quickArgs |-> <<>>]

Idle(S) ==
    /\ pc = [c \in Checks |-> IF c \in S THEN "idle" ELSE "absent"]
    /\ proc = [m \in Cmds |-> "none"]
    /\ seen = [m \in Cmds |-> NoEnv]
    /\ environ = BaseEnviron
    /\ rc = [m \in Cmds |-> NotExited]
    /\ result = [c \in Checks |-> Unset]
    /\ ret = [c \in Checks |-> FALSE]
    /\ calls = [c \in Checks |-> NoCalls]
    /\ printed = <<>>
    /\ overall = "running"

Init ==
    /\ \E S \in SUBSET Checks :
        /\ Cardinality(S) \in 1..MaxChecks
        /\ Idle(S)
        /\ files \in FileInputs
        /\ flags \in [generate_stubs : BOOLEAN, generate_build : BOOLEAN]
        /\ flags.generate_stubs => "mypy" \in S
        /\ flags.generate_build => "clang-tidy" \in S
        /\ flags.generate_build => \E c \in Checks : S \subseteq {"clang-tidy", c}
        /\ excludes = NoExcludes
        /\ missing = {}
        /\ hung = NoHang
    /\ args = NoArgs
    /\ outs = NoOuts

Next ==
    \/ Flake8Run
    \/ Flake8Exit
    \/ ShellCheckRun
    \/ ShellCheckExit
    \/ YamlStepRun
    \/ YamlStepExit
    \/ ClangTidyRun
    \/ \E i \in 1..(Len(PreRunCmds) - 1) : ClangTidyPreRunExit(i)
    \/ ClangTidyPreRunDone
    \/ ClangTidyExit
    \/ MypyRun
    \/ \E m \in AutogenSet : MypyAutogenStart(m)
    \/ \E m \in AutogenSet : MypyAutogenExit(m)
    \/ MypyAutogenDone
    \/ MypyWrapperExit
    \/ \E m \in Profiles : MypyProfileStart(m)
    \/ \E m \in Profiles : MypyProfileExit(m)
    \/ MypyFullDone
    \/ OrchestratorJoin

Spec == Init /\ [][Next]_vars

TypeOK ==
    /\ pc \in [Checks -> {"absent", "idle", "main", "autogen", "profiles", "done",
                          "raised"}
                         \cup PreRunSet]
    /\ proc \in [Cmds -> {"none", "running", "exited"}]
    /\ rc \in [Cmds -> ExitCodes \cup {NotExited}]
    /\ ret \in [Checks -> BOOLEAN]
    /\ overall \in {"running", "passed", "failed", "aborted"}
    /\ missing \subseteq Executables
    /\ hung \in Cmds \cup {NoHang}
    /\ environ \in [EnvNames -> {NotSet, "0", "1", "gcc", "clang", "clang++"}]
    /\ seen \in [Cmds -> [EnvNames -> {NotSet, "?", "0", "1", "gcc", "clang", "clang++", "/tmp"}]]

(* ------------------ CommandResult.__add__ on its own ------------------ *)
Alphabet == {"x", NL}

Strs == UNION {[1..n -> Alphabet] : n \in 0..MaxStr}

AddResults ==
    {CommandResult(p, o, e) : p \in BOOLEAN, o \in Strs, e \in {<<>>, <<"e">>}}

AddInit ==
    /\ Idle({})
    /\ files = NoFiles
    /\ flags = [generate_stubs |-> FALSE, generate_build |-> FALSE]
    /\ excludes = NoExcludes
    /\ missing = {}
    /\ hung = NoHang
    /\ args \in [fn : {"add"}, a : AddResults, b : AddResults, c : AddResults]
    /\ outs = NoOuts

ApplyAdd ==
    /\ args.fn = "add"
    /\ ~outs.done
    /\ outs' = [done |-> TRUE,
                ab   |-> Add(args.a, args.b),
                ba   |-> Add(args.b, args.a),
                ab_c |-> Add(Add(args.a, args.b), args.c),
                a_bc |-> Add(args.a, Add(args.b, args.c))]
    /\ UNCHANGED <<files, excludes, missing, hung, environ, flags, pc, proc, seen, rc, result, ret, calls,
                   printed, overall, args>>

AddNext == ApplyAdd

SpecAdd == AddInit /\ [][AddNext]_vars

(* C10: the passed flag of a sum is the AND of the operands' flags, and   *)
(* is therefore the same for (a+b)+c and a+(b+c), and for a+b and b+a     *)
C10_PassedIsAnd ==
    outs.done =>
        /\ outs.ab.passed = (args.a.passed /\ args.b.passed)
        /\ outs.ab_c.passed = outs.a_bc.passed
        /\ outs.ab.passed = outs.ba.passed

C10_Witness ==
    /\ outs.done
    /\ args.a.passed /\ ~args.b.passed /\ args.c.passed
    /\ ~outs.ab.passed /\ ~outs.ab_c.passed

(* ======================= properties of a check run ==================== *)
Failed(m) == rc[m] \in ExitCodes \ {0}

Started(m) == proc[m] # "none"

MainStarted(c) ==
    CASE c = "clang-tidy" -> Started("clang_tidy")
      [] c = "mypy"       -> Started("mypy_wrapper") \/ \E m \in Profiles : Started(m)
      [] OTHER            -> FALSE

Contains(stream, token) == \E i \in 1..Len(stream) : stream[i] = token

(* C1: once a setup command of ClangTidy has exited non-zero, no later    *)
(* setup command and neither the quick nor the full operation is started  *)
C1_SetupFailureStops ==
    \A i \in 1..Len(PreRunCmds) :
        Failed(PreRunCmds[i]) =>
            /\ \A j \in (i + 1)..Len(PreRunCmds) : ~Started(PreRunCmds[j])
            /\ ~MainStarted("clang-tidy")
            /\ calls["clang-tidy"].quick = 0
            /\ calls["clang-tidy"].full = 0

(* the setup commands of a check                                          *)
SetupCmds(c) ==
    CASE c = "clang-tidy" -> PreRunSet
      [] c = "mypy"       -> AutogenSet
      [] OTHER            -> {}

(* C2: when a setup command of a check exited non-zero, the run returns   *)
(* false and the reported result carries the output of every setup        *)
(* command that ran, whatever the main operation did                      *)
C2_SetupFailureReported ==
    \A c \in {"clang-tidy", "mypy"} :
        (pc[c] = "done" /\ \E m \in SetupCmds(c) : Failed(m)) =>
            /\ ~ret[c]
            /\ ~result[c].passed
            /\ \A m \in SetupCmds(c) :
                  proc[m] = "exited" =>
                      /\ Contains(result[c].stdout, m)
                      /\ Failed(m) => Contains(result[c].stderr, m)

(* the generation group was entered in this run                           *)
AutogenEntered ==
    /\ flags.generate_stubs
    /\ calls["mypy"].quick + calls["mypy"].full > 0

(* C3: the three generation steps of Mypy form a group with a barrier:    *)
(* the wrapper, the per-profile runs and the report of the check come     *)
(* only after all three have exited, also when one of them failed         *)
C3_AutogenBarrier ==
    (AutogenEntered /\ (MainStarted("mypy") \/ pc["mypy"] \in {"main", "profiles", "done"}))
        => \A m \in AutogenSet : proc[m] = "exited"

C3_Witness ==
    /\ AutogenEntered
    /\ pc["mypy"] = "done"
    /\ Failed("torch_version")
    /\ rc["mypy_codegen"] = 0
    /\ rc["gen_pyi"] = 0

(* C4: with generate_stubs the main operation of Mypy is started only if  *)
(* all three members of the generation group exited zero                  *)
C4_MainOnlyAfterCleanAutogen ==
    (flags.generate_stubs /\ MainStarted("mypy"))
        => \A m \in AutogenSet : rc[m] = 0

(* C5: the setup commands of ClangTidy start in the declared order, each  *)
(* after the previous one has exited, so at most one is in flight, and    *)
(* the quick/full operation starts after the last one has exited          *)
C5_PreRunInOrder ==
    /\ Started("setup_cmake") => proc["git_submodule"] = "exited"
    /\ Started("codegen_gen") => proc["setup_cmake"] = "exited"
    /\ Started("generate_code") => proc["codegen_gen"] = "exited"
    /\ (flags.generate_build /\ Started("clang_tidy"))
           => proc["generate_code"] = "exited"
    /\ Cardinality({m \in PreRunSet : proc[m] = "running"}) <= 1
    /\ (\E m \in PreRunSet : proc[m] = "running") => ~Started("clang_tidy")

C5_Witness ==
    /\ flags.generate_build
    /\ proc["clang_tidy"] = "running"
    /\ \A m \in PreRunSet : proc[m] = "exited"

(* C6: run called with an empty file list returns true, and the result    *)
(* it yields has passed = true and empty stdout and stderr                *)
C6_EmptyListPasses ==
    \A c \in Checks :
        (pc[c] = "done" /\ ~files.isNone /\ files.list = <<>>) =>
            /\ ret[c]
            /\ result[c] = CommandResult(TRUE, <<>>, <<>>)

C6_Witness ==
    /\ ~files.isNone /\ files.list = <<>>
    /\ flags.generate_build
    /\ pc["clang-tidy"] = "done" /\ ret["clang-tidy"]
    /\ pc["yaml"] = "done" /\ ret["yaml"]

(* C7: without a changed-file list a check invokes its full operation     *)
(* exactly once and neither its filter nor its quick operation; with a    *)
(* file list the full-mode branch of run_helper is never taken            *)
C7_Routing ==
    \A c \in Checks :
        /\ (InRun(c) /\ files.isNone) =>
              /\ calls[c].filter = 0
              /\ calls[c].quick = 0
              /\ calls[c].full <= 1
              /\ pc[c] = "done" => calls[c].full = 1
        /\ (InRun(c) /\ ~files.isNone) => calls[c].route = 0

C7_Witness ==
    /\ files.isNone
    /\ pc["mypy"] = "done" /\ calls["mypy"].full = 1
    /\ pc["shellcheck"] = "done" /\ calls["shellcheck"].full = 1

(* ------------- quick mode of a single check on any file list ---------- *)
F_e_cc == <<"e", ".", "c", "c">>
F_f_c  == <<"f", ".", "c">>
F_g_h  == <<"g", ".", "h">>

QuickFiles == {F_README, F_a_py, F_b_sh, F_build, F_c_cpp, F_d_pyi, F_e_cc,
               F_f_c, F_g_h}

QuickLists == UNION {[1..n -> QuickFiles] : n \in 0..MaxFiles}

QuickInit ==
    /\ \E c \in Checks : Idle({c})
    /\ files \in {[isNone |-> FALSE, list |-> l] : l \in QuickLists}
    /\ flags \in [generate_stubs : BOOLEAN, generate_build : BOOLEAN]
    /\ flags.generate_stubs => InRun("mypy")
    /\ flags.generate_build => InRun("clang-tidy")
    /\ excludes \in ExcludeConfigs
    /\ excludes # NoExcludes => InRun("flake8")
    /\ missing = {}
    /\ hung = NoHang
    /\ args = NoArgs
    /\ outs = NoOuts

QuickNext ==
    \/ Flake8Run
    \/ Flake8Exit
    \/ ShellCheckRun
    \/ ShellCheckExit
    \/ YamlStepRun
    \/ YamlStepExit
    \/ ClangTidyRun
    \/ \E i \in 1..(Len(PreRunCmds) - 1) : ClangTidyPreRunExit(i)
    \/ ClangTidyPreRunDone
    \/ ClangTidyExit
    \/ MypyRun
    \/ \E m \in AutogenSet : MypyAutogenStart(m)
    \/ \E m \in AutogenSet : MypyAutogenExit(m)
    \/ MypyAutogenDone
    \/ MypyWrapperExit
    \/ OrchestratorJoin

SpecQuick == QuickInit /\ [][QuickNext]_vars

ByExtension == {"flake8", "mypy", "shellcheck", "clang-tidy"}

ExtSet(c) ==
    CASE c = "flake8"     -> {Ext_py}
      [] c = "mypy"       -> {Ext_py, Ext_pyi}
      [] c = "shellcheck" -> {Ext_sh}
      [] c = "clang-tidy" -> {Ext_c, Ext_cc, Ext_cpp}

Range(seq) == {seq[i] : i \in 1..Len(seq)}

HasExt(c) == {f \in Range(files.list) : SplitExt(f) \in ExtSet(c)}

Excluded(f) ==
    \E e \in Range(excludes) :
        /\ Strip(e) # <<>>
        /\ \/ FnMatch(f, Strip(e))
           \/ StartsWith(f, Strip(e))
           \/ StartsWith(<<".", "/">> \o f, Strip(e))

(* run_helper of c has been entered                                       *)
Routed(c) == pc[c] \in {"main", "autogen", "done"}

QuickOn(c, expected) ==
    /\ calls[c].quick <= 1
    /\ calls[c].quick = 1 => Range(calls[c].quickArgs) = expected
    /\ Routed(c) => (calls[c].quick = 1 <=> expected # {})
    /\ (pc[c] = "done" /\ expected = {}) => ret[c]

(* C8 as stated: the quick operation of a check is invoked once, on       *)
(* exactly the listed files whose extension is in the check's set         *)
C8_QuickOnExtension ==
    \A c \in ByExtension : InRun(c) => QuickOn(c, HasExt(c))

(* C8 as amended: for Flake8 the files are the .py files that no exclude  *)
(* entry of .flake8 matches; for the other checks as stated               *)
C8_QuickOnRelevant ==
    \A c \in ByExtension :
        InRun(c) =>
            QuickOn(c, IF c = "flake8"
                       THEN {f \in HasExt(c) : ~Excluded(f)}
                       ELSE HasExt(c))

C8_Witness ==
    /\ InRun("flake8")
    /\ files.list = <<F_build, F_a_py>>
    /\ Excluded(F_build)
    /\ calls["flake8"].quick = 1
    /\ calls["flake8"].quickArgs = <<F_a_py>>
    /\ pc["flake8"] = "done"

(* ------------------------- concurrent checks -------------------------- *)
MainCmds(c) ==
    CASE c = "flake8"     -> {"flake8"}
      [] c = "mypy"       -> {"mypy_wrapper"}
      [] c = "shellcheck" -> {"run_shellcheck", "shellcheck_job"}
      [] c = "clang-tidy" -> {"clang_tidy"}
      [] OTHER            -> {"step_script"}

GroupPending(cmds) ==
    \/ \E i \in 1..Len(cmds) : proc[cmds[i]] \in {"none", "running"}
    \/ \A i \in 1..Len(cmds) : proc[cmds[i]] = "exited"

(* the run of c is not over and the event it waits for can still happen:  *)
(* it has not started, or the process or group it awaits is alive         *)
Pending(c) ==
    \/ pc[c] = "idle"
    \/ pc[c] = "main" /\ \E m \in MainCmds(c) : proc[m] = "running"
    \/ pc[c] \in PreRunSet /\ proc[pc[c]] = "running"
    \/ pc[c] = "autogen" /\ GroupPending(AutogenCmds)
    \/ pc[c] = "profiles" /\ GroupPending(ProfileCmds)

(* C9: when a check has finished with a failed result every unfinished    *)
(* sibling still has its next step pending, the orchestrator reports only *)
(* after every check is Done, and the overall outcome is true iff every   *)
(* run returned true                                                      *)
C9_FailureIsolated ==
    /\ \A c, d \in Checks :
          (pc[c] = "done" /\ ~ret[c] /\ InRun(d) /\ pc[d] # "done")
              => (Pending(d) /\ overall = "running")
    /\ overall # "running" =>
          /\ \A c \in Checks : InRun(c) => pc[c] = "done"
          /\ overall = "passed" <=> \A c \in Checks : InRun(c) => ret[c]

C9_Witness ==
    /\ overall = "failed"
    /\ Len(printed) >= 2
    /\ printed[1].text[1] = "x"
    /\ \E i \in 2..Len(printed) :
          /\ printed[i].by # printed[1].by
          /\ printed[i].text[1] = "ok"


(* C11: a sum drops an empty side: when one operand's stream is empty the *)
(* combined stream is the other operand's stream, with no separator       *)
C11_DropsEmptySide ==
    outs.done =>
        /\ args.a.stdout = <<>> => outs.ab.stdout = args.b.stdout
        /\ args.b.stdout = <<>> => outs.ab.stdout = args.a.stdout
        /\ args.a.stderr = <<>> => outs.ab.stderr = args.b.stderr
        /\ args.b.stderr = <<>> => outs.ab.stderr = args.a.stderr


(* ------------------- filter_files as a pure function ------------------ *)
F_rebuild == <<"r", "e", "b", "u", "i", "l", "d", "/", "g", "e", "n", "e", "r", "a", "t", "e", "d", ".", "p", "y">>

FilterFiles == QuickFiles \cup {F_rebuild}

FilterLists == UNION {[1..n -> FilterFiles] : n \in 0..MaxFiles}

E_build == <<"b", "u", "i", "l", "d", "/">>

FilterExcludes ==
    ExcludeConfigs
    \cup {<<<<"?", ".", "p", "y">>, E_build>>,
          <<<<".", "/", "r", "e">>>>,
          <<<<"*", ".", "p", "y", "i", " ">>, <<" ">>, <<"a", ".", "*">>>>}

(* the run part of the state when only a function is applied             *)
NoRun ==
    /\ Idle({})
    /\ files = NoFiles
    /\ flags = [generate_stubs |-> FALSE, generate_build |-> FALSE]
    /\ missing = {}
    /\ hung = NoHang

KeepRun ==
    UNCHANGED <<files, missing, hung, environ, flags, pc, proc, seen, rc, result, ret, calls, printed, overall>>

FilterInit ==
    /\ NoRun
    /\ excludes \in FilterExcludes
    /\ args \in [fn : {"filter"}, c : Checks, fs : FilterLists]
    /\ excludes # NoExcludes => args.c = "flake8"
    /\ outs = NoOuts

ApplyFilter ==
    /\ args.fn = "filter"
    /\ ~outs.done
    /\ outs' = [done    |-> TRUE,
                once    |-> filter_files(args.c, args.fs, excludes),
                twice   |-> filter_files(args.c,
                               filter_files(args.c, args.fs, excludes), excludes),
                swapped |-> filter_files(args.c, args.fs, Reverse(excludes))]
    /\ KeepRun
    /\ UNCHANGED <<excludes, args>>

FilterNext == ApplyFilter

SpecFilter == FilterInit /\ [][FilterNext]_vars

RECURSIVE IsSubseq(_, _)
IsSubseq(s, t) ==
    IF s = <<>> THEN TRUE
    ELSE IF t = <<>> THEN FALSE
    ELSE IF Head(s) = Head(t) THEN IsSubseq(Tail(s), Tail(t))
    ELSE IsSubseq(s, Tail(t))

(* C12: filtering is idempotent, and the filtered list is a subsequence   *)
(* of the input: the kept files in their original order, nothing added    *)
C12_FilterIdempotent ==
    outs.done =>
        /\ outs.twice = outs.once
        /\ IsSubseq(outs.once, args.fs)

C12_Witness ==
    /\ outs.done
    /\ Len(outs.once) = 2
    /\ outs.once[1] # outs.once[2]
    /\ args.c = "clang-tidy"

(* C13: Flake8 keeps a file exactly when its extension is .py and no      *)
(* exclude pattern glob-matches it or is a prefix of it or of "./" + it;  *)
(* "build/" drops build/generated.py and keeps rebuild/generated.py; the  *)
(* order of the patterns does not matter                                  *)
C13_Flake8Filter ==
    (outs.done /\ args.c = "flake8") =>
        /\ \A f \in Range(args.fs) :
              f \in Range(outs.once) <=> (SplitExt(f) = Ext_py /\ ~Excluded(f))
        /\ outs.swapped = outs.once
        /\ E_build \in Range(excludes) => F_build \notin Range(outs.once)
        /\ (excludes = <<E_build>> /\ F_rebuild \in Range(args.fs)) =>
              F_rebuild \in Range(outs.once)

C13_Witness ==
    /\ outs.done /\ args.c = "flake8"
    /\ excludes = <<E_build>>
    /\ args.fs = <<F_rebuild, F_build>>
    /\ outs.once = <<F_rebuild>>


(* ---------------------- shell_cmd as a pure function ------------------ *)
ShellInit ==
    /\ NoRun
    /\ excludes = NoExcludes
    /\ args \in [fn : {"shell"}, cmd : Cmds, code : ExitCodes,
                 redirect : BOOLEAN, check : BOOLEAN]
    /\ outs = NoOuts

ApplyShell ==
    /\ args.fn = "shell"
    /\ ~outs.done
    /\ outs' = [done |-> TRUE,
                r    |-> shell_cmd_check(args.cmd, args.code, args.redirect,
                                         args.check)]
    /\ KeepRun
    /\ UNCHANGED <<excludes, args>>

ShellNext == ApplyShell

SpecShell == ShellInit /\ [][ShellNext]_vars

(* C14: with check=True every non-zero exit makes shell_cmd raise instead *)
(* of returning a result, with redirect=True and with redirect=False      *)
C14_CheckRaises ==
    (outs.done /\ args.check /\ args.code # 0) => outs.r.raised


(* -------------- one check on a machine that lacks a tool -------------- *)
(* an exception of a check's run leaves the orchestrator's gather: the    *)
(* whole run is aborted                                                   *)
OrchestratorAbort ==
    /\ overall = "running"
    /\ \E c \in Checks : pc[c] = "raised"
    /\ overall' = "aborted"
    /\ UNCHANGED <<files, excludes, missing, hung, environ, flags, pc, proc, seen, rc, result,
                   ret, calls, printed, args, outs>>

FatalInit ==
    /\ \E c \in Checks : Idle({c})
    /\ files \in FileInputs
    /\ flags \in [generate_stubs : BOOLEAN, generate_build : BOOLEAN]
    /\ flags.generate_stubs => InRun("mypy")
    /\ flags.generate_build => InRun("clang-tidy")
    /\ excludes = NoExcludes
    /\ missing \in {{}} \cup {{e} : e \in Executables}
    /\ hung = NoHang
    /\ args = NoArgs
    /\ outs = NoOuts

FatalNext ==
    \/ Next
    \/ OrchestratorAbort

SpecFatal == FatalInit /\ [][FatalNext]_vars

CmdsOf(c) ==
    MainCmds(c) \cup SetupCmds(c) \cup (IF c = "mypy" THEN Profiles ELSE {})

(* C15: a command whose executable cannot be resolved makes the run of    *)
(* its check raise: the check never ends with a reported result once such *)
(* a command was attempted, and no command of a check that raised is      *)
(* running                                                                *)
C15_MissingIsFatal ==
    \A c \in Checks : \A m \in CmdsOf(c) :
        /\ (~which(Exe(m)) /\ Started(m)) => pc[c] # "done"
        /\ pc[c] = "raised" => proc[m] # "running"


(* ------------------------------ reporting ----------------------------- *)
LinesOf(c) == SelectSeq(printed, LAMBDA l : l.by = c)

StreamLines(r) ==
    (IF Strip(r.stderr) # <<>> THEN <<Strip(r.stderr)>> ELSE <<>>)
    \o (IF Strip(r.stdout) # <<>> THEN <<Strip(r.stdout)>> ELSE <<>>)

(* C16: a check prints nothing before its run completes, and a completed  *)
(* run has printed one block: a header with the pass glyph exactly when   *)
(* the run returns true and with the check's name, followed, only when    *)
(* the result failed, by the error stream and then the output stream      *)
C16_OneReportBlock ==
    \A c \in Checks :
        LET ls == LinesOf(c)
            body == StreamLines(result[c])
        IN  /\ pc[c] # "done" => ls = <<>>
            /\ pc[c] = "done" =>
                  /\ Len(ls) >= 1
                  /\ ls[1].text = <<IF ret[c] THEN "ok" ELSE "x", " ", c>>
                  /\ \A i \in 2..Len(ls) : ls[i].text[1] \notin {"ok", "x"}
                  /\ ret[c] => Len(ls) = 1
                  /\ ~ret[c] =>
                        /\ Len(ls) >= 1 + Len(body)
                        /\ \A i \in 1..Len(body) : ls[1 + i].text = body[i]
                        /\ Len(ls) = 1 + Len(body) + (IF c = "mypy" THEN 1 ELSE 0)

C16_Witness ==
    /\ pc["flake8"] = "done" /\ ~ret["flake8"]
    /\ Len(LinesOf("flake8")) = 3
    /\ LinesOf("flake8")[2].text = <<"!", "flake8">>
    /\ LinesOf("flake8")[3].text = <<"flake8">>
    /\ pc["shellcheck"] = "done" /\ ret["shellcheck"]
    /\ Len(LinesOf("shellcheck")) = 1

(* C17: the lines one check printed are contiguous in the output, however *)
(* the runs of the checks interleave                                      *)
C17_BlocksContiguous ==
    \A i \in 1..Len(printed) : \A k \in i..Len(printed) :
        printed[i].by = printed[k].by =>
            \A j \in i..k : printed[j].by = printed[i].by

C17_Witness ==
    /\ Len(printed) = 7
    /\ printed[1].by = "mypy"
    /\ printed[7].by = "flake8"
    /\ ~files.isNone


(* ---------------- the script YamlStep.full hands to bash -------------- *)
(* str.replace(old, new): the occurrences of old, found from the left and *)
(* not overlapping, become new                                            *)
RECURSIVE Replace(_, _, _)
Replace(s, old, new) ==
    IF Len(s) < Len(old) THEN s
    ELSE IF StartsWith(s, old)
         THEN new \o Replace(SubSeq(s, Len(old) + 1, Len(s)), old, new)
         ELSE <<Head(s)>> \o Replace(Tail(s), old, new)

SubAtStringStart(s, prefix, atStart) ==
    IF atStart /\ StartsWith(s, prefix)
    THEN SubSeq(s, Len(prefix) + 1, Len(s))
    ELSE s

(* re.sub("^" + prefix, "", s, flags=re.MULTILINE): atStart tells whether *)
(* s begins the string or follows a newline                               *)
RECURSIVE SubAtLineStart(_, _, _)
SubAtLineStart(s, prefix, atStart) ==
    IF s = <<>> THEN <<>>
    ELSE IF atStart /\ StartsWith(s, prefix)
         THEN SubAtLineStart(SubSeq(s, Len(prefix) + 1, Len(s)), prefix, FALSE)
         ELSE <<Head(s)>> \o SubAtLineStart(Tail(s), prefix, Head(s) = NL)

T_set_eux == <<"s", "e", "t", " ", "-", "e", "u", "x">>
T_set_eu  == <<"s", "e", "t", " ", "-", "e", "u">>
T_time    == <<"t", "i", "m", "e", " ">>

(* the script of YamlStep.full; verbose is utils.VERBOSE                  *)
YamlStepScript(script, verbose) ==
    IF verbose
    THEN SubAtLineStart(Replace(script, T_set_eux, T_set_eu), T_time, TRUE)
    ELSE script

(* lines a step's script is made of, by a short name                      *)
LineText(n) ==
    CASE n = "set" -> <<"s", "e", "t", " ", "-", "e", "u", "x">>
      [] n = "time_make" -> <<"t", "i", "m", "e", " ", "m", "a", "k", "e">>
      [] n = "make" -> <<"m", "a", "k", "e">>
      [] n = "inner_time" -> <<"a", " ", "t", "i", "m", "e", " ", "b">>
      [] n = "time_set" -> <<"t", "i", "m", "e", " ", "s", "e", "t", " ", "-", "e", "u", "x">>
      [] n = "indented" -> <<" ", "t", "i", "m", "e", " ", "x">>
      [] n = "time_twice" -> <<"t", "i", "m", "e", " ", "t", "i", "m", "e", " ", "x">>
      [] n = "timeout" -> <<"t", "i", "m", "e", "o", "u", "t", " ", "5">>
      [] n = "set_more" -> <<"s", "e", "t", " ", "-", "e", "u", "x", "o">>

LineTexts == {LineText(n) : n \in {"set", "time_make", "make", "inner_time", "time_set",
                              "indented", "time_twice", "timeout", "set_more"}}

Scripts == UNION {[1..n -> LineTexts] : n \in 0..MaxLines}

RECURSIVE JoinLines(_)
JoinLines(ls) ==
    IF ls = <<>> THEN <<>>
    ELSE IF Len(ls) = 1 THEN ls[1]
    ELSE ls[1] \o <<NL>> \o JoinLines(Tail(ls))

ScriptInit ==
    /\ NoRun
    /\ excludes = NoExcludes
    /\ args \in [fn : {"script"}, lines : Scripts, verbose : BOOLEAN]
    /\ outs = NoOuts

ApplyScript ==
    /\ args.fn = "script"
    /\ ~outs.done
    /\ outs' = [done   |-> TRUE,
                script |-> YamlStepScript(JoinLines(args.lines), args.verbose)]
    /\ KeepRun
    /\ UNCHANGED <<excludes, args>>

ScriptNext == ApplyScript

SpecScript == ScriptInit /\ [][ScriptNext]_vars

(* what the rewriting is expected to make of each line                    *)
ExpectedLine(l) ==
    CASE
         l = LineText("set") -> <<"s", "e", "t", " ", "-", "e", "u">>
      [] l = LineText("time_make") -> <<"m", "a", "k", "e">>
      [] l = LineText("time_set") -> <<"s", "e", "t", " ", "-", "e", "u">>
      [] l = LineText("time_twice") -> <<"t", "i", "m", "e", " ", "x">>
      [] l = LineText("set_more") -> <<"s", "e", "t", " ", "-", "e", "u", "o">>
      [] OTHER -> l

(* C18: in verbose mode every "set -eux" of the script has become         *)
(* "set -eu" and every line that began with "time " has lost that prefix, *)
(* all other text being unchanged; otherwise the script is unmodified     *)
C18_VerboseRewrite ==
    outs.done =>
        outs.script = JoinLines([i \in 1..Len(args.lines) |->
                          IF args.verbose THEN ExpectedLine(args.lines[i])
                          ELSE args.lines[i]])

C18_Witness ==
    /\ outs.done /\ args.verbose
    /\ args.lines = <<LineText("set"), LineText("time_twice")>>
    /\ outs.script = T_set_eu \o <<NL>> \o <<"t", "i", "m", "e", " ", "x">>


(* ------------------------- grab_specific_steps ------------------------ *)
(* str.lower() on the letters used in step names                          *)
LowerChar(ch) ==
    CASE ch = "A" -> "a"
      [] ch = "B" -> "b"
      [] OTHER    -> ch

Lower(s) == [i \in 1..Len(s) |-> LowerChar(s[i])]

(* actual_step["name"].lower().strip() == step.lower().strip()            *)
NameMatches(actual_step, step) == Strip(Lower(actual_step.name)) = Strip(Lower(step))

(* the inner loop: the first step of the job that matches, if any         *)
RECURSIVE FirstMatch(_, _)
FirstMatch(step, steps) ==
    IF steps = <<>> THEN <<>>
    ELSE IF NameMatches(Head(steps), step) THEN <<Head(steps)>>
    ELSE FirstMatch(step, Tail(steps))

(* the outer loop: relevant_steps                                         *)
RECURSIVE RelevantSteps(_, _)
RelevantSteps(steps_to_grab, job) ==
    IF steps_to_grab = <<>> THEN <<>>
    ELSE FirstMatch(Head(steps_to_grab), job)
         \o RelevantSteps(Tail(steps_to_grab), job)

grab_specific_steps_Partial(steps_to_grab, job) ==
    [raised |-> FALSE, value |-> RelevantSteps(steps_to_grab, job)]

grab_specific_steps(steps_to_grab, job) ==
    LET relevant_steps == RelevantSteps(steps_to_grab, job)
    IN  IF Len(relevant_steps) # Len(steps_to_grab)
        THEN [raised |-> TRUE, value |-> <<>>]
        ELSE [raised |-> FALSE, value |-> relevant_steps]

StepNames == {<<"a">>, <<"A", " ">>, <<"b">>}

RequestNames == {<<"a">>, <<" ", "B">>, <<"c">>}

(* job["steps"]: each step has a name and, standing for its other keys,   *)
(* its position                                                           *)
Jobs ==
    UNION {{[i \in 1..n |-> [name |-> ns[i], id |-> i]] : ns \in [1..n -> StepNames]}
           : n \in 0..MaxSteps}

Requests == UNION {[1..n -> RequestNames] : n \in 0..MaxSteps}

StepsInit ==
    /\ NoRun
    /\ excludes = NoExcludes
    /\ args \in [fn : {"steps"}, steps_to_grab : Requests, job : Jobs]
    /\ outs = NoOuts

ApplySteps ==
    /\ args.fn = "steps"
    /\ ~outs.done
    /\ outs' = [done |-> TRUE,
                r    |-> grab_specific_steps(args.steps_to_grab, args.job)]
    /\ KeepRun
    /\ UNCHANGED <<excludes, args>>

StepsNext == ApplySteps

SpecSteps == StepsInit /\ [][StepsNext]_vars

(* the requested name i, ignoring case and outer spaces, names a step     *)
Named(i) ==
    \E j \in 1..Len(args.job) :
        Strip(Lower(args.job[j].name)) = Strip(Lower(args.steps_to_grab[i]))

(* C19: when every requested name names a step of the job, the result is  *)
(* one step of the job per requested name, in the order requested; when   *)
(* some requested name names no step, the call raises and returns nothing *)
C19_GrabSteps ==
    outs.done =>
        IF \A i \in 1..Len(args.steps_to_grab) : Named(i)
        THEN /\ ~outs.r.raised
             /\ Len(outs.r.value) = Len(args.steps_to_grab)
             /\ \A i \in 1..Len(args.steps_to_grab) :
                   /\ outs.r.value[i] \in Range(args.job)
                   /\ Strip(Lower(outs.r.value[i].name))
                        = Strip(Lower(args.steps_to_grab[i]))
        ELSE outs.r.raised /\ outs.r.value = <<>>

C19_Witness ==
    /\ outs.done /\ ~outs.r.raised
    /\ args.steps_to_grab = << <<" ", "B">>, <<"a">> >>
    /\ outs.r.value = << [name |-> <<"b">>, id |-> 2], [name |-> <<"A", " ">>, id |-> 1] >>


(* ------------- two checks, one of whose commands may hang ------------- *)
HangInit ==
    /\ \E c \in Checks : \E d \in Checks \ {c} :
        /\ Idle({c, d})
        /\ hung \in {NoHang} \cup CmdsOf(c)
    /\ files \in {NoFiles} \cup {[isNone |-> FALSE, list |-> l] :
                                   l \in {k \in FileLists : Len(k) = 1}}
    /\ flags \in [generate_stubs : BOOLEAN, generate_build : BOOLEAN]
    /\ flags.generate_stubs => InRun("mypy")
    /\ flags.generate_build => InRun("clang-tidy")
    /\ flags.generate_build => hung \in PreRunSet \cup {NoHang}
    /\ excludes = NoExcludes
    /\ missing = {}
    /\ args = NoArgs
    /\ outs = NoOuts

(* the event loop runs a task whenever one is ready, and a process that   *)
(* is not the hung one exits                                              *)
Fairness == WF_vars(Next)

SpecHang == HangInit /\ [][Next]_vars /\ Fairness

(* C20: when a command of one check never exits, every other check of the *)
(* run still reaches the end of its run and has printed its report        *)
C20_OthersFinish ==
    <>(\A d \in Checks :
          (InRun(d) /\ hung \notin CmdsOf(d))
              => (pc[d] = "done" /\ LinesOf(d) # <<>>))

C20_Witness ==
    /\ hung = "flake8"
    /\ proc["flake8"] = "running"
    /\ pc["mypy"] = "done"
    /\ LinesOf("mypy") # <<>>
    /\ overall = "running"


(* ------------------------------ environment -------------------------- *)
OverlayNames == {"USE_NCCL", "USE_DEPLOY", "CC", "CXX"}

(* the settings of the build-description step are in e                    *)
Overlaid(e) ==
    /\ e["USE_NCCL"] = "0" /\ e["USE_DEPLOY"] = "1"
    /\ e["CC"] = "clang" /\ e["CXX"] = "clang++"

(* e has the settings the runner was started with                         *)
Plain(e) == \A n \in OverlayNames : e[n] = BaseEnviron[n]

(* C21: from the build-description step on, the four settings are in the  *)
(* environment of the runner itself and stay there after ClangTidy has    *)
(* finished; a process of any check has them exactly when it (or, for the *)
(* copies Mypy and YamlStep pass on, its copy) was made after that step,  *)
(* and the starting environment otherwise                                 *)
C21_EnvironGlobal ==
    /\ Started("setup_cmake") => Overlaid(environ)
    /\ ~Started("setup_cmake") => environ = BaseEnviron
    /\ \A m \in Cmds :
          proc[m] = "running" =>
              /\ Overlaid(seen[m]) \/ Plain(seen[m])
              /\ Overlaid(seen[m]) => Started("setup_cmake")
              /\ m \in PreRunSet \ {"git_submodule"} => Overlaid(seen[m])

C21_Witness ==
    /\ pc["clang-tidy"] = "done"
    /\ Overlaid(environ)
    /\ proc["torch_version"] = "running" /\ Plain(seen["torch_version"])
    /\ proc["gen_pyi"] = "running" /\ Overlaid(seen["gen_pyi"])


(* C22: in quick mode a check whose relevant file list is empty never is  *)
(* in its setup phase and never starts an external process                *)
C22_EmptyRelevantNoProcess ==
    \A c \in Checks :
        (InRun(c) /\ QuickMode /\ filter_files(c, files.list, excludes) = <<>>) =>
            /\ pc[c] \in {"idle", "done"}
            /\ \A m \in CmdsOf(c) : ~Started(m)


(* C23: in full mode Mypy has started and awaited one mypy run for every  *)
(* profile when it reports, it reports once, and the run returns true     *)
(* exactly when every profile's run and, with generate_stubs, every       *)
(* command of the setup exited with status 0                              *)
C23_MypyFullAggregate ==
    (files.isNone /\ pc["mypy"] = "done") =>
        /\ \A m \in Profiles : proc[m] = "exited"
        /\ ret["mypy"] <=>
              /\ \A m \in Profiles : rc[m] = 0
              /\ flags.generate_stubs => \A m \in AutogenSet : rc[m] = 0
        /\ calls["mypy"].full = 1
        /\ Len(SelectSeq(LinesOf("mypy"),
                         LAMBDA l : l.text[1] \in {"ok", "x"})) = 1

(* every profile's run is in flight at the same time                      *)
C23_Witness ==
    /\ files.isNone /\ flags.generate_stubs
    /\ \A m \in Profiles : proc[m] = "running"
    /\ \E m \in AutogenSet : rc[m] = 1


(* the commands whose exit status the result of c's run is made of: a     *)
(* function of the request alone                                          *)
Deciding(c) ==
    IF QuickMode
    THEN IF filter_files(c, files.list, excludes) = <<>> THEN {}
         ELSE CASE c = "flake8"     -> {"flake8"}
                [] c = "mypy"       -> {"mypy_wrapper"}
                [] c = "shellcheck" -> {"run_shellcheck"}
                [] c = "clang-tidy" -> {"clang_tidy"}
                [] OTHER            -> {"step_script"}
    ELSE CASE c = "flake8"     -> {"flake8"}
           [] c = "mypy"       -> Profiles \cup (IF flags.generate_stubs
                                                  THEN AutogenSet ELSE {})
           [] c = "shellcheck" -> {"shellcheck_job"}
           [] c = "clang-tidy" -> {"clang_tidy"}
           [] OTHER            -> {"step_script"}

(* C24: what a check's run returns is a function of the request and of    *)
(* the exit statuses of its commands, and the overall outcome is a        *)
(* function of the same, whatever the order in which the checks and the   *)
(* members of a group were started and finished                           *)
C24_OutcomeDetermined ==
    /\ \A c \in Checks :
          pc[c] = "done" => (ret[c] <=> \A m \in Deciding(c) : rc[m] = 0)
    /\ overall # "running" =>
          (overall = "passed" <=>
              \A c \in Checks : InRun(c) => \A m \in Deciding(c) : rc[m] = 0)

(* a run decided after the check that passed reported before the one that *)
(* failed, the failure being that of the last member of a group           *)
C24_Witness ==
    /\ overall = "failed"
    /\ files.isNone /\ flags.generate_stubs
    /\ ~ret["mypy"]
    /\ rc[AutogenCmds[1]] = 0
    /\ rc[AutogenCmds[Len(AutogenCmds)]] = 1
    /\ \A m \in Profiles : rc[m] = 0
    /\ \E d \in Checks \ {"mypy"} : ret[d] /\ printed[1].by = d

====
